---- MODULE Spec2Model ----
(***************************************************************************)
(* Model of the Ghostty configuration language support: the line parser    *)
(* and position resolver (parser/configParser.ts), the type validators     *)
(* (validation/validators.ts) and the completion provider                  *)
(* (providers/completionProvider.ts).                                      *)
(*                                                                         *)
(* A JavaScript string is a sequence of one-character strings; offsets of  *)
(* the source are 0-based, sequence indices are 1-based.  Every operation  *)
(* is a pure function of its arguments and the schema: a behaviour is one  *)
(* call, and its state records the call (function name and arguments) and  *)
(* the value it returned.                                                  *)
(***************************************************************************)
EXTENDS Integers, Sequences, FiniteSets, TLC

VARIABLES schema, call, result

vars == <<schema, call, result>>

(***************************************************************************)
(* Bounds of the model.                                                    *)
(***************************************************************************)
MaxLineLen == 5

(***************************************************************************)
(* String primitives of the JavaScript runtime.                            *)
(***************************************************************************)

\* WhiteSpace and LineTerminator code points: what \s matches and trim strips.
WhiteSpace == {" ", "\t", "\r", "\n"}

\* The line terminators, which '.' of a regular expression does not match.
LineTerminator == {"\r", "\n"}

Letter == {"a", "b", "c", "d", "e", "f", "g", "h", "i", "j", "k", "l", "m",
           "n", "o", "p", "q", "r", "s", "t", "u", "v", "w", "x", "y", "z",
           "A", "B", "C", "D", "E", "F", "G", "H", "I", "J", "K", "L", "M",
           "N", "O", "P", "Q", "R", "S", "T", "U", "V", "W", "X", "Y", "Z"}

Digit == {"0", "1", "2", "3", "4", "5", "6", "7", "8", "9"}

Min(S) == CHOOSE x \in S : \A y \in S : x <= y

Max(S) == CHOOSE x \in S : \A y \in S : y <= x

\* All sequences over the set A of length at most n.
StringsUpTo(A, n) == UNION {[1..k -> A] : k \in 0..n}

\* String.prototype.substring(from, to), 0-based and half-open.
Substring(s, from, to) == SubSeq(s, from + 1, to)

\* String.prototype.substring(from): to the end of the string.
SubstringFrom(s, from) == SubSeq(s, from + 1, Len(s))

\* String.prototype.indexOf(c) for a one-character c: -1 when absent.
IndexOf(s, c) ==
  IF \E i \in 1..Len(s) : s[i] = c
    THEN Min({i \in 1..Len(s) : s[i] = c}) - 1
    ELSE -1

\* Number of leading white space characters of s.
LeadingSpace(s) ==
  Max({n \in 0..Len(s) : \A i \in 1..n : s[i] \in WhiteSpace})

\* Number of trailing white space characters of s.
TrailingSpace(s) ==
  Max({n \in 0..Len(s) : \A i \in (Len(s) - n + 1)..Len(s) : s[i] \in WhiteSpace})

\* String.prototype.trimStart
TrimStart(s) == SubSeq(s, LeadingSpace(s) + 1, Len(s))

\* String.prototype.trimEnd
TrimEnd(s) == SubSeq(s, 1, Len(s) - TrailingSpace(s))

\* String.prototype.trim
Trim(s) == TrimEnd(TrimStart(s))

(***************************************************************************)
(* parser/configParser.ts                                                  *)
(***************************************************************************)

Undefined == [undefined |-> TRUE]

\* The characters [a-zA-Z0-9_-] of a key after its first one.
KeyChar == Letter \cup Digit \cup {"_", "-"}

\* Length of the longest prefix of s made of characters of the set A.
Run(s, A) == Max({n \in 0..Len(s) : \A i \in 1..n : s[i] \in A})

\* A slip of KEY_VALUE_REGEX: the value ends before the next '=' of the line,
\* as if the line were split at every '='.
KEY_VALUE_REGEX_Split(line) ==
  LET indentLen == LeadingSpace(line)
      afterIndent == SubstringFrom(line, indentLen)
      keyLen == IF afterIndent # <<>> /\ afterIndent[1] \in Letter
                  THEN Run(afterIndent, KeyChar)
                  ELSE 0
      afterKey == SubstringFrom(afterIndent, keyLen)
      gap == LeadingSpace(afterKey)
      afterGap == SubstringFrom(afterKey, gap)
      afterEquals == SubstringFrom(afterGap, 1)
      segment == IF IndexOf(afterEquals, "=") = -1
                   THEN afterEquals
                   ELSE Substring(afterEquals, 0, IndexOf(afterEquals, "="))
      group3 == Trim(segment)
  IN  IF /\ keyLen > 0
         /\ afterGap # <<>>
         /\ afterGap[1] = "="
         /\ \A i \in 1..Len(group3) : group3[i] \notin LineTerminator
        THEN [indent |-> Substring(line, 0, indentLen),
              key |-> Substring(afterIndent, 0, keyLen),
              value |-> group3]
        ELSE Undefined

\* KEY_VALUE_REGEX = /^(\s*)([a-zA-Z][a-zA-Z0-9_-]*)\s*=\s*(.*?)\s*$/
\* The match of the expression on a line, or Undefined when there is none.
\* Every quantifier but the lazy (.*?) is greedy and none can give back a
\* character that the next element accepts, so the groups are determined by
\* one left-to-right scan; (.*?) takes the shortest run of characters other
\* than line terminators that leaves only white space up to the end.
KEY_VALUE_REGEX(line) ==
  LET indentLen == LeadingSpace(line)
      afterIndent == SubstringFrom(line, indentLen)
      keyLen == IF afterIndent # <<>> /\ afterIndent[1] \in Letter
                  THEN Run(afterIndent, KeyChar)
                  ELSE 0
      afterKey == SubstringFrom(afterIndent, keyLen)
      gap == LeadingSpace(afterKey)
      afterGap == SubstringFrom(afterKey, gap)
      rest == TrimStart(SubstringFrom(afterGap, 1))
      group3 == TrimEnd(rest)
  IN  IF /\ keyLen > 0
         /\ afterGap # <<>>
         /\ afterGap[1] = "="
         /\ \A i \in 1..Len(group3) : group3[i] \notin LineTerminator
        THEN [indent |-> Substring(line, 0, indentLen),
              key |-> Substring(afterIndent, 0, keyLen),
              value |-> group3]
        ELSE Undefined

\* COMMENT_REGEX = /^\s*#/
COMMENT_REGEX(line) ==
  LET t == TrimStart(line) IN t # <<>> /\ t[1] = "#"

\* A slip of valueStart: the white space after the '=' is not skipped.
valueStartNoSkip(line, equalsIndex) == equalsIndex + 1

\* const valueStart = equalsIndex + 1 + (rest.length - rest.trimStart().length)
valueStart(line, equalsIndex) ==
  equalsIndex + 1
  + (Len(SubstringFrom(line, equalsIndex + 1))
     - Len(TrimStart(SubstringFrom(line, equalsIndex + 1))))

\* A slip of valueEnd: the last character of the value is left out.
valueEndShort(line) == Len(TrimEnd(line)) - 1

\* const valueEnd = line.trimEnd().length
valueEnd(line) == Len(TrimEnd(line))

parseLine(line, lineNumber) ==
  IF Trim(line) = <<>>
    THEN [type |-> "empty", lineNumber |-> lineNumber, raw |-> line]
  ELSE IF COMMENT_REGEX(line)
    THEN [type |-> "comment", lineNumber |-> lineNumber, raw |-> line]
  ELSE LET match == KEY_VALUE_REGEX(line) IN
    IF match # Undefined
      THEN LET keyStart == Len(match.indent)
               keyEnd == keyStart + Len(match.key)
               equalsIndex == IndexOf(line, "=")
           IN  [type |-> "keyValue",
                lineNumber |-> lineNumber,
                key |-> match.key,
                value |-> Trim(match.value),
                keyRange |-> [start |-> keyStart, end |-> keyEnd],
                valueRange |-> [start |-> valueStart(line, equalsIndex),
                                end |-> valueEnd(line)],
                raw |-> line]
      ELSE [type |-> "invalid", lineNumber |-> lineNumber, raw |-> line]

\* String.prototype.split(c) for a one-character separator c.
RECURSIVE Split(_, _)
Split(s, c) ==
  IF IndexOf(s, c) = -1
    THEN <<s>>
    ELSE <<Substring(s, 0, IndexOf(s, c))>> \o Split(SubstringFrom(s, IndexOf(s, c) + 1), c)

\* A slip of parseDocument: the lines are numbered from 1.
parseDocumentOneBased(text) ==
  LET lines == Split(text, "\n")
  IN  [i \in 1..Len(lines) |-> parseLine(lines[i], i)]

parseDocument(text) ==
  LET lines == Split(text, "\n")
  IN  [i \in 1..Len(lines) |-> parseLine(lines[i], i - 1)]

isInKeyPosition(line, character) ==
  LET equalsIndex == IndexOf(line, "=")
  IN  equalsIndex = -1 \/ character <= equalsIndex

\* A slip of isInValuePosition: the '=' itself counts as value territory.
isInValuePositionInclusive(line, character) ==
  LET equalsIndex == IndexOf(line, "=")
  IN  equalsIndex # -1 /\ character >= equalsIndex

isInValuePosition(line, character) ==
  LET equalsIndex == IndexOf(line, "=")
  IN  equalsIndex # -1 /\ character > equalsIndex

(***************************************************************************)
(* More of the JavaScript runtime, as the validators use it.               *)
(***************************************************************************)

UpperCase == <<"A", "B", "C", "D", "E", "F", "G", "H", "I", "J", "K", "L", "M",
               "N", "O", "P", "Q", "R", "S", "T", "U", "V", "W", "X", "Y", "Z">>

LowerCase == <<"a", "b", "c", "d", "e", "f", "g", "h", "i", "j", "k", "l", "m",
               "n", "o", "p", "q", "r", "s", "t", "u", "v", "w", "x", "y", "z">>

\* String.prototype.toLowerCase
ToLowerCase(s) ==
  [i \in 1..Len(s) |->
     IF \E k \in 1..26 : UpperCase[k] = s[i]
       THEN LowerCase[CHOOSE k \in 1..26 : UpperCase[k] = s[i]]
       ELSE s[i]]

\* String.prototype.startsWith
StartsWith(s, p) == Len(p) <= Len(s) /\ SubSeq(s, 1, Len(p)) = p

\* String.prototype.endsWith
EndsWith(s, p) == Len(p) <= Len(s) /\ SubSeq(s, Len(s) - Len(p) + 1, Len(s)) = p

\* String.prototype.includes
Includes(s, p) == \E i \in 0..(Len(s) - Len(p)) : SubSeq(s, i + 1, i + Len(p)) = p

\* Array.prototype.includes
ArrayIncludes(a, x) == \E i \in 1..Len(a) : a[i] = x

DecimalDigits == <<"0", "1", "2", "3", "4", "5", "6", "7", "8", "9">>

RECURSIVE Pow10(_)
Pow10(n) == IF n = 0 THEN 1 ELSE 10 * Pow10(n - 1)

\* The mathematical value of a run of decimal digits (0 for the empty run).
RECURSIVE DigitsValue(_)
DigitsValue(ds) ==
  IF ds = <<>>
    THEN 0
    ELSE 10 * DigitsValue(SubSeq(ds, 1, Len(ds) - 1))
         + (CHOOSE k \in 1..10 : DecimalDigits[k] = ds[Len(ds)]) - 1

NaN == [nan |-> TRUE]

\* parseFloat: leading white space is skipped and the longest prefix that is
\* a StrDecimalLiteral is converted; NaN when there is none.  A finite number
\* is the fraction num / den (den > 0), an infinity is [inf |-> +1 or -1].
ParseFloat(s) ==
  LET t == TrimStart(s)
      signed == t # <<>> /\ t[1] \in {"+", "-"}
      sign == IF signed /\ t[1] = "-" THEN -1 ELSE 1
      body == IF signed THEN SubstringFrom(t, 1) ELSE t
      intLen == Run(body, Digit)
      afterInt == SubstringFrom(body, intLen)
      hasDot == afterInt # <<>> /\ afterInt[1] = "."
      fracLen == IF hasDot THEN Run(SubstringFrom(afterInt, 1), Digit) ELSE 0
      mantissaLen == intLen + (IF hasDot THEN 1 + fracLen ELSE 0)
      afterMantissa == SubstringFrom(body, mantissaLen)
      hasE == afterMantissa # <<>> /\ afterMantissa[1] \in {"e", "E"}
      afterE == SubstringFrom(afterMantissa, 1)
      expSigned == hasE /\ afterE # <<>> /\ afterE[1] \in {"+", "-"}
      expDigits == IF expSigned THEN SubstringFrom(afterE, 1) ELSE afterE
      expLen == IF hasE THEN Run(expDigits, Digit) ELSE 0
      exponent == (IF expSigned /\ afterE[1] = "-" THEN -1 ELSE 1)
                  * DigitsValue(Substring(expDigits, 0, expLen))
      digits == Substring(body, 0, intLen) \o Substring(afterInt, 1, 1 + fracLen)
  IN  IF StartsWith(body, <<"I", "n", "f", "i", "n", "i", "t", "y">>)
        THEN [inf |-> sign]
      ELSE IF intLen = 0 /\ fracLen = 0
        THEN NaN
      ELSE IF exponent >= 0
        THEN [num |-> sign * DigitsValue(digits) * Pow10(exponent),
              den |-> Pow10(fracLen)]
        ELSE [num |-> sign * DigitsValue(digits),
              den |-> Pow10(fracLen) * Pow10(0 - exponent)]

\* isNaN
IsNaN(x) == x = NaN

\* x < n, for a parsed number x and an integer n.
NumberLess(x, n) ==
  IF "inf" \in DOMAIN x THEN x.inf < 0 ELSE x.num < n * x.den

\* x > n, for a parsed number x and an integer n.
NumberGreater(x, n) ==
  IF "inf" \in DOMAIN x THEN x.inf > 0 ELSE x.num > n * x.den

(***************************************************************************)
(* types.ts: the schema.                                                   *)
(*                                                                         *)
(* schema.options is the sequence of its entries [key, option] in          *)
(* insertion order (the order of Object.entries), without duplicate keys.  *)
(* An optional field that is not set is not a field of the record.         *)
(* schema.plainObject tells whether schema.options is an ordinary object   *)
(* (an object literal, the result of JSON.parse), which inherits the       *)
(* members of Object.prototype, or an object without a prototype.          *)
(***************************************************************************)

ConfigValueType == {"string", "number", "boolean", "color", "enum", "keybind",
                    "path", "percentage", "duration", "theme"}

\* The names every ordinary object inherits from Object.prototype.
ObjectPrototypeKeys ==
  {<<"c", "o", "n", "s", "t", "r", "u", "c", "t", "o", "r">>,
   <<"t", "o", "S", "t", "r", "i", "n", "g">>,
   <<"t", "o", "L", "o", "c", "a", "l", "e", "S", "t", "r", "i", "n", "g">>,
   <<"v", "a", "l", "u", "e", "O", "f">>,
   <<"h", "a", "s", "O", "w", "n", "P", "r", "o", "p", "e", "r", "t", "y">>,
   <<"i", "s", "P", "r", "o", "t", "o", "t", "y", "p", "e", "O", "f">>,
   <<"p", "r", "o", "p", "e", "r", "t", "y", "I", "s", "E", "n", "u", "m", "e", "r", "a", "b", "l", "e">>,
   <<"_", "_", "p", "r", "o", "t", "o", "_", "_">>,
   <<"_", "_", "d", "e", "f", "i", "n", "e", "G", "e", "t", "t", "e", "r", "_", "_">>,
   <<"_", "_", "d", "e", "f", "i", "n", "e", "S", "e", "t", "t", "e", "r", "_", "_">>,
   <<"_", "_", "l", "o", "o", "k", "u", "p", "G", "e", "t", "t", "e", "r", "_", "_">>,
   <<"_", "_", "l", "o", "o", "k", "u", "p", "S", "e", "t", "t", "e", "r", "_", "_">>}

\* What a lookup of an inherited name gives: a function or object, which is
\* truthy and has no property 'type'.
InheritedMember == [inherited |-> TRUE]

OwnKeys(options) == {options[i].key : i \in 1..Len(options)}

\* schema.options[key]
OptionOf(s, key) ==
  IF key \in OwnKeys(s.options)
    THEN (CHOOSE e \in {s.options[i] : i \in 1..Len(s.options)} : e.key = key).option
  ELSE IF s.plainObject /\ key \in ObjectPrototypeKeys
    THEN InheritedMember
    ELSE Undefined

\* schema.types['keybind']?.actions
KeybindActions(s) ==
  IF "keybind" \in DOMAIN s.types /\ "actions" \in DOMAIN s.types["keybind"]
    THEN s.types["keybind"].actions
    ELSE Undefined

(***************************************************************************)
(* validation/validators.ts                                                *)
(***************************************************************************)

HexDigit == Digit \cup {"a", "b", "c", "d", "e", "f", "A", "B", "C", "D", "E", "F"}

IsHex(s, n) == Len(s) = n /\ \A i \in 1..n : s[i] \in HexDigit

\* HEX_COLOR_REGEX = /^#[0-9a-fA-F]{3}$|^#[0-9a-fA-F]{6}$|^#[0-9a-fA-F]{8}$/
HEX_COLOR_REGEX(value) ==
  /\ value # <<>>
  /\ value[1] = "#"
  /\ \E n \in {3, 6, 8} : IsHex(SubstringFrom(value, 1), n)

\* A slip of HEX_COLOR_NO_HASH_REGEX: the short form is accepted without '#'.
HEX_COLOR_NO_HASH_REGEX_Short(value) == IsHex(value, 3) \/ IsHex(value, 6)

\* HEX_COLOR_NO_HASH_REGEX = /^[0-9a-fA-F]{6}$/
HEX_COLOR_NO_HASH_REGEX(value) == IsHex(value, 6)

NAMED_COLORS ==
  {<<"b", "l", "a", "c", "k">>, <<"r", "e", "d">>,
   <<"g", "r", "e", "e", "n">>, <<"y", "e", "l", "l", "o", "w">>,
   <<"b", "l", "u", "e">>, <<"m", "a", "g", "e", "n", "t", "a">>,
   <<"c", "y", "a", "n">>, <<"w", "h", "i", "t", "e">>,
   <<"g", "r", "a", "y">>, <<"g", "r", "e", "y">>,
   <<"d", "a", "r", "k", "r", "e", "d">>,
   <<"d", "a", "r", "k", "g", "r", "e", "e", "n">>,
   <<"d", "a", "r", "k", "y", "e", "l", "l", "o", "w">>,
   <<"d", "a", "r", "k", "b", "l", "u", "e">>,
   <<"d", "a", "r", "k", "m", "a", "g", "e", "n", "t", "a">>,
   <<"d", "a", "r", "k", "c", "y", "a", "n">>,
   <<"l", "i", "g", "h", "t", "g", "r", "a", "y">>,
   <<"l", "i", "g", "h", "t", "g", "r", "e", "y">>,
   <<"l", "i", "g", "h", "t", "r", "e", "d">>,
   <<"l", "i", "g", "h", "t", "g", "r", "e", "e", "n">>,
   <<"l", "i", "g", "h", "t", "y", "e", "l", "l", "o", "w">>,
   <<"l", "i", "g", "h", "t", "b", "l", "u", "e">>,
   <<"l", "i", "g", "h", "t", "m", "a", "g", "e", "n", "t", "a">>,
   <<"l", "i", "g", "h", "t", "c", "y", "a", "n">>,
   <<"o", "r", "a", "n", "g", "e">>, <<"p", "i", "n", "k">>,
   <<"p", "u", "r", "p", "l", "e">>, <<"b", "r", "o", "w", "n">>,
   <<"g", "o", "l", "d">>, <<"s", "i", "l", "v", "e", "r">>,
   <<"n", "a", "v", "y">>, <<"m", "a", "r", "o", "o", "n">>,
   <<"o", "l", "i", "v", "e">>, <<"l", "i", "m", "e">>,
   <<"a", "q", "u", "a">>, <<"t", "e", "a", "l">>,
   <<"f", "u", "c", "h", "s", "i", "a">>,
   <<"t", "r", "a", "n", "s", "p", "a", "r", "e", "n", "t">>,
   <<"c", "e", "l", "l", "-", "f", "o", "r", "e", "g", "r", "o", "u", "n", "d">>,
   <<"c", "e", "l", "l", "-", "b", "a", "c", "k", "g", "r", "o", "u", "n", "d">>,
   <<"b", "a", "c", "k", "g", "r", "o", "u", "n", "d">>,
   <<"e", "x", "t", "e", "n", "d">>,
   <<"e", "x", "t", "e", "n", "d", "-", "a", "l", "w", "a", "y", "s">>}

BOOLEAN_VALUES ==
  {<<"t", "r", "u", "e">>, <<"f", "a", "l", "s", "e">>, <<"y", "e", "s">>,
   <<"n", "o">>, <<"o", "n">>, <<"o", "f", "f">>}

Valid == [isValid |-> TRUE]

Invalid(message, severity) ==
  [isValid |-> FALSE, message |-> message, severity |-> severity]

\* A slip of validateBoolean: the failure is reported as a warning.
validateBooleanWarning(value) ==
  IF ToLowerCase(value) \in BOOLEAN_VALUES
    THEN Valid
    ELSE Invalid(<<"Invalid boolean value: '", value,
                   "'. Expected one of: true, false, yes, no, on, off">>, "warning")

validateBoolean(value) ==
  IF ToLowerCase(value) \in BOOLEAN_VALUES
    THEN Valid
    ELSE Invalid(<<"Invalid boolean value: '", value,
                   "'. Expected one of: true, false, yes, no, on, off">>, "error")

validateNumber(value, option) ==
  LET num == ParseFloat(value) IN
  IF IsNaN(num)
    THEN Invalid(<<"Invalid number: '", value, "'">>, "error")
  ELSE IF "minimum" \in DOMAIN option /\ NumberLess(num, option.minimum)
    THEN Invalid(<<"Value ", num, " is below minimum ", option.minimum>>, "error")
  ELSE IF "maximum" \in DOMAIN option /\ NumberGreater(num, option.maximum)
    THEN Invalid(<<"Value ", num, " is above maximum ", option.maximum>>, "error")
    ELSE Valid

validateColor(value) ==
  IF HEX_COLOR_REGEX(value) \/ HEX_COLOR_NO_HASH_REGEX(value)
    THEN Valid
  ELSE IF ToLowerCase(value) \in NAMED_COLORS
    THEN Valid
    ELSE Invalid(<<"Invalid colour: '", value,
                   "'. Expected hex (#RGB, #RRGGBB, #RRGGBBAA) or named colour">>,
                 "error")

\* A slip of validateEnum: the value is compared without regard to case.
validateEnumIgnoreCase(value, option) ==
  IF "enum" \notin DOMAIN option
    THEN Valid
  ELSE IF \E i \in 1..Len(option.enum) : ToLowerCase(option.enum[i]) = ToLowerCase(value)
    THEN Valid
    ELSE Invalid(<<"Invalid value: '", value, "'. Expected one of: ", option.enum>>,
                 "error")

validateEnum(value, option) ==
  IF "enum" \notin DOMAIN option
    THEN Valid
  ELSE IF ArrayIncludes(option.enum, value)
    THEN Valid
    ELSE Invalid(<<"Invalid value: '", value, "'. Expected one of: ", option.enum>>,
                 "error")

\* actionPart.split(':')[0]
ActionName(actionPart) ==
  IF IndexOf(actionPart, ":") = -1
    THEN actionPart
    ELSE Substring(actionPart, 0, IndexOf(actionPart, ":"))

\* A slip of validateKnownAction: the vocabulary is not consulted.
validateKnownActionSkipped(actionName, s) == Valid

\* The last step of validateKeybind: the action is known, if the schema has
\* actions.
validateKnownAction(actionName, s) ==
  LET actions == KeybindActions(s) IN
  IF actions # Undefined /\ Len(actions) > 0 /\ ~ArrayIncludes(actions, actionName)
    THEN Invalid(<<"Unknown keybind action: '", actionName, "'">>, "warning")
    ELSE Valid

\* A slip of validateKeybind: the action is checked before the trigger.
validateKeybindActionFirst(value, s) ==
  IF value = <<"c", "l", "e", "a", "r">>
    THEN Valid
  ELSE LET equalsIndex == IndexOf(value, "=") IN
  IF equalsIndex = -1
    THEN Invalid(<<"Invalid keybind format. Expected: [prefix:]trigger=action[:param]">>,
                 "error")
  ELSE LET trigger == Substring(value, 0, equalsIndex)
           actionPart == SubstringFrom(value, equalsIndex + 1)
           actionName == ActionName(actionPart)
       IN
  IF Trim(actionName) = <<>>
    THEN Invalid(<<"Keybind action cannot be empty">>, "error")
  ELSE IF Trim(trigger) = <<>>
    THEN Invalid(<<"Keybind trigger cannot be empty">>, "error")
    ELSE validateKnownAction(actionName, s)

validateKeybind(value, s) ==
  IF value = <<"c", "l", "e", "a", "r">>
    THEN Valid
  ELSE LET equalsIndex == IndexOf(value, "=") IN
  IF equalsIndex = -1
    THEN Invalid(<<"Invalid keybind format. Expected: [prefix:]trigger=action[:param]">>,
                 "error")
  ELSE LET trigger == Substring(value, 0, equalsIndex)
           actionPart == SubstringFrom(value, equalsIndex + 1)
           actionName == ActionName(actionPart)
       IN
  IF Trim(trigger) = <<>>
    THEN Invalid(<<"Keybind trigger cannot be empty">>, "error")
  ELSE IF Trim(actionName) = <<>>
    THEN Invalid(<<"Keybind action cannot be empty">>, "error")
    ELSE validateKnownAction(actionName, s)

\* A slip of validatePath: a plain file name is not accepted.
validatePathPrefixed(value) ==
  IF Trim(value) = <<>>
    THEN Invalid(<<"Path cannot be empty">>, "error")
  ELSE IF \/ StartsWith(value, <<"~">>)
          \/ StartsWith(value, <<"/">>)
          \/ StartsWith(value, <<".", "/">>)
          \/ StartsWith(value, <<"?">>)
    THEN Valid
    ELSE Invalid(<<"Path cannot be empty">>, "error")

validatePath(value) ==
  IF Trim(value) = <<>>
    THEN Invalid(<<"Path cannot be empty">>, "error")
  ELSE IF \/ StartsWith(value, <<"~">>)
          \/ StartsWith(value, <<"/">>)
          \/ StartsWith(value, <<".", "/">>)
          \/ StartsWith(value, <<"?">>)
    THEN Valid
    ELSE Valid

validatePercentage(value) ==
  LET cleanValue == IF EndsWith(value, <<"%">>)
                      THEN Substring(value, 0, Len(value) - 1)
                      ELSE value
      num == ParseFloat(cleanValue)
  IN  IF IsNaN(num)
        THEN Invalid(<<"Invalid percentage/number: '", value, "'">>, "error")
        ELSE Valid

DurationUnits ==
  {<<"y">>, <<"d">>, <<"h">>, <<"m">>, <<"s">>, <<"m", "s">>, <<"u", "s">>,
   <<"µ", "s">>, <<"n", "s">>}

\* durationRegex = /^-?\d+(\.\d+)?(y|d|h|m|s|ms|us|µs|ns)?$/
durationRegex(value) ==
  LET body == IF value # <<>> /\ value[1] = "-" THEN SubstringFrom(value, 1) ELSE value
      intLen == Run(body, Digit)
      afterInt == SubstringFrom(body, intLen)
      fracLen == IF afterInt # <<>> /\ afterInt[1] = "."
                   THEN Run(SubstringFrom(afterInt, 1), Digit)
                   ELSE 0
      \* (\.\d+)? is taken when it matches; without it the '.' that follows
      \* the digits is no unit, so no other way to match opens.
      afterFrac == IF fracLen > 0 THEN SubstringFrom(afterInt, 1 + fracLen) ELSE afterInt
  IN  intLen > 0 /\ (afterFrac = <<>> \/ afterFrac \in DurationUnits)

validateDuration(value) ==
  IF durationRegex(value)
    THEN Valid
    ELSE Invalid(<<"Invalid duration: '", value,
                   "'. Expected number with optional unit (s, ms, etc.)">>, "error")

\* The switch of validateValue on option.type; an object without a property
\* 'type' takes the default branch.
validateByType(s, option, value) ==
  LET type == IF "type" \in DOMAIN option THEN option.type ELSE "undefined" IN
  CASE type = "boolean" -> validateBoolean(value)
    [] type = "number" -> validateNumber(value, option)
    [] type = "color" -> validateColor(value)
    [] type = "enum" -> validateEnum(value, option)
    [] type = "keybind" -> validateKeybind(value, s)
    [] type = "path" -> validatePath(value)
    [] type = "percentage" -> validatePercentage(value)
    [] type = "duration" -> validateDuration(value)
    [] OTHER -> Valid

\* A slip of validateValue: an empty value is validated like any other.
validateValueNoReset(s, key, value) ==
  LET option == OptionOf(s, key) IN
  IF option = Undefined
    THEN Invalid(<<"Unknown configuration key: '", key, "'">>, "warning")
    ELSE validateByType(s, option, value)

validateValue(s, key, value) ==
  LET option == OptionOf(s, key) IN
  IF option = Undefined
    THEN Invalid(<<"Unknown configuration key: '", key, "'">>, "warning")
  ELSE IF Trim(value) = <<>>
    THEN Valid
    ELSE validateByType(s, option, value)

(***************************************************************************)
(* providers/completionProvider.ts                                         *)
(***************************************************************************)

\* option.<field> is set and truthy (a flag), or set and not empty (a list)
Flag(option, field) == field \in DOMAIN option /\ option[field] = TRUE

NonEmptyList(option, field) == field \in DOMAIN option /\ Len(option[field]) > 0

\* getTypeLabel: the parts of the label, in order.
getTypeLabel(option) ==
  <<option.type>>
  \o (IF Flag(option, "repeatable") THEN <<" (repeatable)">> ELSE <<>>)
  \o (IF NonEmptyList(option, "platforms")
        THEN <<" [", option.platforms, "]">>
        ELSE <<>>)

\* buildKeyDocumentation: the parts appended to the markdown, in order.
buildKeyDocumentation(key, option) ==
  <<"**", key, "**", option.description, "**Type:** ", option.type>>
  \o (IF "enum" \in DOMAIN option THEN <<"**Values:** ", option.enum>> ELSE <<>>)
  \o (IF NonEmptyList(option, "examples")
        THEN <<"**Examples:** ", option.examples>>
        ELSE <<>>)
  \o (IF NonEmptyList(option, "platforms")
        THEN <<"**Platforms:** ", option.platforms>>
        ELSE <<>>)
  \o (IF Flag(option, "deprecated") THEN <<"**Deprecated**">> ELSE <<>>)

\* item.sortText: deprecated keys have lower priority
sortText(key, option) ==
  IF Flag(option, "deprecated") THEN <<"z", "_">> \o key ELSE key

\* The completion item of getKeyCompletions for one entry of schema.options.
KeyCompletionItem(key, option) ==
  [label |-> key,
   kind |-> "Property",
   detail |-> getTypeLabel(option),
   documentation |-> buildKeyDocumentation(key, option),
   insertText |-> key \o <<" ", "=", " ">>,
   command |-> "editor.action.triggerSuggest",
   tags |-> IF Flag(option, "deprecated") THEN <<"Deprecated">> ELSE <<>>,
   sortText |-> sortText(key, option)]

\* The entries of schema.options that getKeyCompletions does not skip.
KeyMatches(entry, prefix) ==
  ~(prefix # <<>> /\ ~Includes(ToLowerCase(entry.key), prefix))

getKeyCompletions(s, textBeforeCursor) ==
  LET prefix == ToLowerCase(Trim(textBeforeCursor))
      kept == SelectSeq(s.options, LAMBDA e : KeyMatches(e, prefix))
  IN  [i \in 1..Len(kept) |-> KeyCompletionItem(kept[i].key, kept[i].option)]

\* A completion item that sets label, kind and detail only.
CompletionItem(label, kind, detail) ==
  [label |-> label, kind |-> kind, detail |-> detail]

\* values.filter(...).map(...) and the push loops: the items of the kept
\* elements, in the order of the list.
ItemsOf(list, Keep(_), Item(_)) ==
  LET kept == SelectSeq(list, Keep)
  IN  [i \in 1..Len(kept) |-> Item(kept[i])]

booleanValues == <<<<"t", "r", "u", "e">>, <<"f", "a", "l", "s", "e">>>>

getBooleanCompletions(partial) ==
  ItemsOf(booleanValues,
          LAMBDA v : partial = <<>> \/ StartsWith(v, partial),
          LAMBDA v : CompletionItem(v, "Value", "Boolean"))

hexTemplates ==
  <<[label |-> <<"#", "R", "R", "G", "G", "B", "B">>, insertText |-> <<"#">>,
     detail |-> "Hex colour (e.g. #ff0000)"]>>

namedColors ==
  <<<<"b", "l", "a", "c", "k">>, <<"r", "e", "d">>,
    <<"g", "r", "e", "e", "n">>, <<"y", "e", "l", "l", "o", "w">>,
    <<"b", "l", "u", "e">>, <<"m", "a", "g", "e", "n", "t", "a">>,
    <<"c", "y", "a", "n">>, <<"w", "h", "i", "t", "e">>,
    <<"t", "r", "a", "n", "s", "p", "a", "r", "e", "n", "t">>,
    <<"c", "e", "l", "l", "-", "f", "o", "r", "e", "g", "r", "o", "u", "n", "d">>,
    <<"c", "e", "l", "l", "-", "b", "a", "c", "k", "g", "r", "o", "u", "n", "d">>>>

getColorCompletions(partial) ==
  ItemsOf(hexTemplates,
          LAMBDA template : \/ partial = <<>>
                            \/ Includes(ToLowerCase(template.label), partial)
                            \/ StartsWith(template.insertText, partial),
          LAMBDA template : [label |-> template.label, kind |-> "Color",
                             insertText |-> template.insertText,
                             detail |-> template.detail])
  \o ItemsOf(namedColors,
             LAMBDA color : partial = <<>> \/ Includes(color, partial),
             LAMBDA color : CompletionItem(color, "Color", "Named colour"))

getEnumCompletions(option, partial) ==
  IF "enum" \notin DOMAIN option
    THEN <<>>
    ELSE ItemsOf(option.enum,
                 LAMBDA v : partial = <<>> \/ Includes(ToLowerCase(v), partial),
                 LAMBDA v : CompletionItem(v, "EnumMember", option.type))

commonPatterns ==
  <<[label |-> <<"c", "t", "r", "l", "+">>, detail |-> "Control modifier"],
    [label |-> <<"s", "h", "i", "f", "t", "+">>, detail |-> "Shift modifier"],
    [label |-> <<"a", "l", "t", "+">>, detail |-> "Alt/Option modifier"],
    [label |-> <<"s", "u", "p", "e", "r", "+">>, detail |-> "Super/Command modifier"],
    [label |-> <<"c", "m", "d", "+">>, detail |-> "Command modifier (macOS)"],
    [label |-> <<"g", "l", "o", "b", "a", "l", ":">>, detail |-> "Global prefix (works when unfocused)"],
    [label |-> <<"p", "e", "r", "f", "o", "r", "m", "a", "b", "l", "e", ":">>, detail |-> "Performable prefix"],
    [label |-> <<"c", "l", "e", "a", "r">>, detail |-> "Clear all keybindings"]>>

commonKeybinds ==
  <<<<"c", "t", "r", "l", "+", "c", "=", "c", "o", "p", "y", "_", "t", "o", "_", "c", "l", "i", "p", "b", "o", "a", "r", "d">>,
    <<"c", "t", "r", "l", "+", "v", "=", "p", "a", "s", "t", "e", "_", "f", "r", "o", "m", "_", "c", "l", "i", "p", "b", "o", "a", "r", "d">>,
    <<"c", "t", "r", "l", "+", "s", "h", "i", "f", "t", "+", "c", "=", "c", "o", "p", "y", "_", "t", "o", "_", "c", "l", "i", "p", "b", "o", "a", "r", "d">>,
    <<"c", "t", "r", "l", "+", "s", "h", "i", "f", "t", "+", "v", "=", "p", "a", "s", "t", "e", "_", "f", "r", "o", "m", "_", "c", "l", "i", "p", "b", "o", "a", "r", "d">>,
    <<"c", "t", "r", "l", "+", "t", "=", "n", "e", "w", "_", "t", "a", "b">>,
    <<"c", "t", "r", "l", "+", "w", "=", "c", "l", "o", "s", "e", "_", "s", "u", "r", "f", "a", "c", "e">>,
    <<"c", "t", "r", "l", "+", "s", "h", "i", "f", "t", "+", "t", "=", "n", "e", "w", "_", "w", "i", "n", "d", "o", "w">>,
    <<"c", "t", "r", "l", "+", "=", "i", "n", "c", "r", "e", "a", "s", "e", "_", "f", "o", "n", "t", "_", "s", "i", "z", "e">>,
    <<"c", "t", "r", "l", "+", "-", "=", "d", "e", "c", "r", "e", "a", "s", "e", "_", "f", "o", "n", "t", "_", "s", "i", "z", "e">>,
    <<"c", "t", "r", "l", "+", "0", "=", "r", "e", "s", "e", "t", "_", "f", "o", "n", "t", "_", "s", "i", "z", "e">>>>

\* partial.split('=')[1]?.toLowerCase() || ''
actionPrefix(partial) ==
  IF Len(Split(partial, "=")) >= 2
    THEN ToLowerCase(Split(partial, "=")[2])
    ELSE <<>>

getKeybindCompletions(s, partial) ==
  IF Includes(partial, <<"=">>)
    THEN IF KeybindActions(s) = Undefined
           THEN <<>>
           ELSE ItemsOf(KeybindActions(s),
                        LAMBDA action :
                          \/ actionPrefix(partial) = <<>>
                          \/ Includes(ToLowerCase(action), actionPrefix(partial)),
                        LAMBDA action :
                          CompletionItem(action, "Function", "Keybind action"))
    ELSE ItemsOf(commonPatterns,
                 LAMBDA pattern :
                   partial = <<>> \/ Includes(ToLowerCase(pattern.label), partial),
                 LAMBDA pattern :
                   CompletionItem(pattern.label, "Keyword", pattern.detail))
         \o ItemsOf(commonKeybinds,
                    LAMBDA kb : partial = <<>> \/ Includes(ToLowerCase(kb), partial),
                    LAMBDA kb : CompletionItem(kb, "Snippet", "Common keybind"))

themes ==
  <<<<"a", "u", "t", "o">>, <<"l", "i", "g", "h", "t">>,
    <<"d", "a", "r", "k">>,
    <<"C", "a", "t", "p", "p", "u", "c", "c", "i", "n", " ", "M", "o", "c", "h", "a">>,
    <<"C", "a", "t", "p", "p", "u", "c", "c", "i", "n", " ", "F", "r", "a", "p", "p", "e">>,
    <<"C", "a", "t", "p", "p", "u", "c", "c", "i", "n", " ", "L", "a", "t", "t", "e">>,
    <<"C", "a", "t", "p", "p", "u", "c", "c", "i", "n", " ", "M", "a", "c", "c", "h", "i", "a", "t", "o">>,
    <<"D", "r", "a", "c", "u", "l", "a">>,
    <<"G", "r", "u", "v", "b", "o", "x", " ", "D", "a", "r", "k">>,
    <<"G", "r", "u", "v", "b", "o", "x", " ", "L", "i", "g", "h", "t">>,
    <<"N", "o", "r", "d">>, <<"O", "n", "e", " ", "D", "a", "r", "k">>,
    <<"S", "o", "l", "a", "r", "i", "z", "e", "d", " ", "D", "a", "r", "k">>,
    <<"S", "o", "l", "a", "r", "i", "z", "e", "d", " ", "L", "i", "g", "h", "t">>,
    <<"T", "o", "k", "y", "o", " ", "N", "i", "g", "h", "t">>,
    <<"G", "i", "t", "H", "u", "b", " ", "D", "a", "r", "k">>,
    <<"G", "i", "t", "H", "u", "b", " ", "L", "i", "g", "h", "t">>>>

\* The label and the snippet of the light/dark combination.
themeCombination ==
  [label |-> <<"l", "i", "g", "h", "t", ":", "L", "I", "G", "H", "T", "_",
             "T", "H", "E", "M", "E", ",", "d", "a", "r", "k", ":", "D", "A", "R", "K",
             "_", "T", "H", "E", "M", "E">>,
   kind |-> "Snippet",
   detail |-> "Light/dark theme combination",
   insertText |-> "light:${1:theme},dark:${2:theme}"]

themeCombinationMatchesLabel(partial) ==
  partial = <<>> \/ Includes(ToLowerCase(themeCombination.label), partial)

\* The condition under which the light/dark combination is offered.
themeCombinationMatches(partial) ==
  \/ partial = <<>>
  \/ Includes(<<"l", "i", "g", "h", "t", ":">>, partial)
  \/ Includes(<<"d", "a", "r", "k", ":">>, partial)

getThemeCompletions(partial) ==
  ItemsOf(themes,
          LAMBDA theme : partial = <<>> \/ Includes(ToLowerCase(theme), partial),
          LAMBDA theme : CompletionItem(theme, "Value", "Theme"))
  \o (IF themeCombinationMatches(partial) THEN <<themeCombination>> ELSE <<>>)

getExampleCompletions(option, partial) ==
  IF ~NonEmptyList(option, "examples")
    THEN <<>>
    ELSE ItemsOf(option.examples,
                 LAMBDA ex : partial = <<>> \/ Includes(ToLowerCase(ex), partial),
                 LAMBDA ex : CompletionItem(ex, "Value", "Example value"))

\* The partial value after the first '=' of the text before the cursor.
partialValue(textBeforeCursor) ==
  IF IndexOf(textBeforeCursor, "=") # -1
    THEN ToLowerCase(Trim(SubstringFrom(textBeforeCursor,
                                        IndexOf(textBeforeCursor, "=") + 1)))
    ELSE <<>>

\* option.type; an inherited member has none.
TypeOf(option) ==
  IF "type" \in DOMAIN option THEN option.type ELSE "undefined"

getValueCompletions(s, key, textBeforeCursor) ==
  LET option == OptionOf(s, key)
      partial == partialValue(textBeforeCursor)
  IN  IF option = Undefined THEN <<>>
      ELSE IF TypeOf(option) = "boolean" THEN getBooleanCompletions(partial)
      ELSE IF TypeOf(option) = "color" THEN getColorCompletions(partial)
      ELSE IF TypeOf(option) = "enum" THEN getEnumCompletions(option, partial)
      ELSE IF TypeOf(option) = "keybind" THEN getKeybindCompletions(s, partial)
      ELSE IF TypeOf(option) = "theme" THEN getThemeCompletions(partial)
      ELSE getExampleCompletions(option, partial)

(***************************************************************************)
(* The parser's specification: the parser and the position resolver are    *)
(* called on every line over LineAlphabet of at most MaxLineLen characters *)
(* and every cursor offset of the line, and the document parser on every   *)
(* text of such lines.  The parser reads no schema.                        *)
(***************************************************************************)

LineAlphabet == {" ", "a", "1", "=", "#", "\r"}

Lines == StringsUpTo(LineAlphabet, MaxLineLen)

NoSchema == [version |-> "", description |-> "", plainObject |-> TRUE,
             options |-> <<>>, types |-> <<>>, repeatableKeys |-> <<>>]

NoCall == [fn |-> "none"]

ParserInit ==
  /\ schema = NoSchema
  /\ call = NoCall
  /\ result = Undefined

ParseLine ==
  /\ call = NoCall
  /\ \E line \in Lines :
       /\ call' = [fn |-> "parseLine", line |-> line, lineNumber |-> 0]
       /\ result' = parseLine(line, 0)
       /\ UNCHANGED schema

IsInKeyPosition ==
  /\ call = NoCall
  /\ \E line \in Lines : \E character \in 0..Len(line) :
       /\ call' = [fn |-> "isInKeyPosition", line |-> line, character |-> character]
       /\ result' = isInKeyPosition(line, character)
       /\ UNCHANGED schema

IsInValuePosition ==
  /\ call = NoCall
  /\ \E line \in Lines : \E character \in 0..Len(line) :
       /\ call' = [fn |-> "isInValuePosition", line |-> line, character |-> character]
       /\ result' = isInValuePosition(line, character)
       /\ UNCHANGED schema

\* The documents: the lines and the line feeds between them.
Texts == StringsUpTo(LineAlphabet \cup {"\n"}, MaxLineLen)

ParseDocument ==
  /\ call = NoCall
  /\ \E text \in Texts :
       /\ call' = [fn |-> "parseDocument", text |-> text]
       /\ result' = parseDocument(text)
       /\ UNCHANGED schema

ParserNext == ParseLine \/ ParseDocument \/ IsInKeyPosition \/ IsInValuePosition

ParserSpec == ParserInit /\ [][ParserNext]_vars

(***************************************************************************)
(* The validators' specification: a schema is loaded, then validateValue   *)
(* is called on a key and a value, or an exported validator on a value.  The schema declares DeclaredKey with   *)
(* an option of any type (any enum list for an enum, any bounds for a      *)
(* number) and OtherKey, and has any keybind type definition.              *)
(***************************************************************************)

MaxValueLen == 3

DeclaredKey == <<"f", "o", "n", "t", "-", "s", "i", "z", "e">>

OtherKey == <<"t", "i", "t", "l", "e">>

UndeclaredKey == <<"f", "o", "n", "t", "s", "i", "z", "e">>

InheritedKey == <<"c", "o", "n", "s", "t", "r", "u", "c", "t", "o", "r">>

ValidatorKeys == {DeclaredKey, OtherKey, UndeclaredKey, InheritedKey}

EnumLists == {<<>>, <<<<"a">>>>, <<<<"A">>>>, <<<<"a">>, <<"a", "1">>>>}

Options ==
  [type : ConfigValueType \ {"enum", "number"}, description : {""}]
  \cup [type : {"enum"}, description : {""}]
  \cup [type : {"enum"}, description : {""}, enum : EnumLists]
  \cup [type : {"number"}, description : {""}]
  \cup [type : {"number"}, description : {""}, minimum : {8}]
  \cup [type : {"number"}, description : {""}, maximum : {72}]
  \cup [type : {"number"}, description : {""}, minimum : {8}, maximum : {72}]

ActionLists == {<<>>, <<<<"c", "o", "p", "y">>, <<"p", "a", "s", "t", "e">>>>}

\* schema.types: an empty map, or one with a keybind type definition
TypeDefinitions ==
  {<<>>}
  \cup {[t \in {"keybind"} |-> [description |-> ""]]}
  \cup {[t \in {"keybind"} |-> [description |-> "", actions |-> a]] : a \in ActionLists}

ValidatorSchemas ==
  {[version |-> "1", description |-> "", plainObject |-> p,
    options |-> <<[key |-> OtherKey, option |-> [type |-> "string", description |-> ""]],
                  [key |-> DeclaredKey, option |-> o]>>,
    types |-> t, repeatableKeys |-> <<>>] :
     p \in BOOLEAN, o \in Options, t \in TypeDefinitions}

ValueAlphabet == {" ", "=", ":", "a", "1", "%", "#"}

SampleValues ==
  {<<"c", "l", "e", "a", "r">>, <<"C", "l", "e", "a", "r">>,
   <<"t", "r", "u", "e">>, <<"T", "R", "U", "E">>, <<"O", "n">>,
   <<"n", "o">>, <<"o", "f", "f">>, <<"y", "e", "s">>,
   <<"f", "a", "l", "s", "e">>, <<"e", "n", "a", "b", "l", "e", "d">>,
   <<"r", "e", "d">>, <<"B", "l", "a", "c", "k">>,
   <<"c", "e", "l", "l", "-", "f", "o", "r", "e", "g", "r", "o", "u", "n", "d">>,
   <<"#", "f", "0", "0">>, <<"#", "f", "f", "0", "0", "0", "0">>,
   <<"#", "A", "A", "B", "B", "C", "C">>, <<"f", "f", "0", "0", "0", "0">>,
   <<"#", "f", "f", "0", "0", "0", "0", "f", "f">>,
   <<"#", "f", "f", "0", "0">>, <<"#", "g", "g", "0", "0", "0", "0">>,
   <<"f", "0", "0">>, <<"f", "f", "0", "0", "0", "0", "f", "f">>, <<"4">>,
   <<"8">>, <<"1", "4">>, <<"7", "2">>, <<"9", "6">>, <<"1", ".", "5">>,
   <<"-", "1", "0">>, <<"0", ".", "7", "5">>, <<"a", "b", "c">>,
   <<"1", "e", "2">>, <<".", "5">>, <<"5", ".">>, <<"1", "x">>,
   <<"I", "n", "f", "i", "n", "i", "t", "y">>, <<"7", ".", "9">>,
   <<"7", "2", ".", "5">>, <<"5", "0", "%">>, <<"1", ".", "5", "%">>,
   <<"a", "%">>, <<"1", "0", "m", "s">>, <<"1", ".", "5", "h">>,
   <<"-", "1", "s">>, <<"1", ".", "s">>, <<"5", "µ", "s">>,
   <<"1", " ", "s">>,
   <<"c", "t", "r", "l", "+", "c", "=", "c", "o", "p", "y">>,
   <<"c", "t", "r", "l", "+", "x", "=", "t", "e", "l", "e", "p", "o", "r", "t">>,
   <<"c", "t", "r", "l", "+", "c", "=">>, <<"=", "c", "o", "p", "y">>,
   <<"c", "t", "r", "l", "+", "c", "=", "c", "o", "p", "y", ":", "1">>,
   <<"c", "t", "r", "l", "+", "c", "=", ":", "1">>,
   <<"a", "=", "b", "=", "c">>,
   <<"c", "t", "r", "l", "+", "c", "=", " ", "c", "o", "p", "y">>,
   <<" ", "c", "l", "e", "a", "r">>, <<"~", "/", "a">>, <<".", "/", "a">>,
   <<"/", "a">>, <<"?", "a">>, <<"a", ".", "t", "x", "t">>, <<"A">>}

Values == StringsUpTo(ValueAlphabet, MaxValueLen) \cup SampleValues

ValidatorInit ==
  /\ schema \in ValidatorSchemas
  /\ call = NoCall
  /\ result = Undefined

ValidateValue ==
  /\ call = NoCall
  /\ \E key \in ValidatorKeys : \E value \in Values :
       /\ call' = [fn |-> "validateValue", key |-> key, value |-> value]
       /\ result' = validateValue(schema, key, value)
       /\ UNCHANGED schema

\* The exported validators that the tests call without a schema.
ValidateNumber ==
  /\ call = NoCall
  /\ \E value \in Values :
     \E option \in {Undefined}
                   \cup {schema.options[i].option :
                           i \in {j \in 1..Len(schema.options) :
                                    schema.options[j].option.type = "number"}} :
       /\ call' = [fn |-> "validateNumber", value |-> value, option |-> option]
       /\ result' = validateNumber(value, option)
       /\ UNCHANGED schema

ValidateColor ==
  /\ call = NoCall
  /\ \E value \in Values :
       /\ call' = [fn |-> "validateColor", value |-> value]
       /\ result' = validateColor(value)
       /\ UNCHANGED schema

ValidatorNext == ValidateValue \/ ValidateNumber \/ ValidateColor

ValidatorSpec == ValidatorInit /\ [][ValidatorNext]_vars

(***************************************************************************)
(* The completion provider's specification: a schema is loaded, then key   *)
(* completion is asked with some text before the cursor.  The schema has   *)
(* at most MaxOptions options, under distinct keys of at most MaxKeyLen    *)
(* characters, each deprecated or not.                                     *)
(***************************************************************************)

MaxOptions == 2

MaxKeyLen == 2

CompletionKeyAlphabet == {"a", "z"}

CompletionKeys == StringsUpTo(CompletionKeyAlphabet, MaxKeyLen) \ {<<>>}

CompletionOptions ==
  [type : {"string"}, description : {""}]
  \cup [type : {"string"}, description : {""}, deprecated : {TRUE}]

CompletionEntries == [key : CompletionKeys, option : CompletionOptions]

CompletionSchemas ==
  {[version |-> "1", description |-> "", plainObject |-> TRUE,
    options |-> o, types |-> <<>>, repeatableKeys |-> <<>>] :
     o \in {e \in StringsUpTo(CompletionEntries, MaxOptions) :
              \A i, j \in 1..Len(e) : e[i].key = e[j].key => i = j}}

TextsBeforeCursor == StringsUpTo({"a", "Z", " "}, 2)

CompletionInit ==
  /\ schema \in CompletionSchemas
  /\ call = NoCall
  /\ result = Undefined

GetKeyCompletions ==
  /\ call = NoCall
  /\ \E textBeforeCursor \in TextsBeforeCursor :
       /\ call' = [fn |-> "getKeyCompletions", textBeforeCursor |-> textBeforeCursor]
       /\ result' = getKeyCompletions(schema, textBeforeCursor)
       /\ UNCHANGED schema

CompletionNext == GetKeyCompletions

CompletionSpec == CompletionInit /\ [][CompletionNext]_vars

(***************************************************************************)
(* The value completion's specification: a schema is loaded, then value    *)
(* completion is asked for a key with the text before the cursor, which is *)
(* the key alone or the key, '=' and at most MaxPartialLen characters.     *)
(* The schema declares DeclaredKey with an option of any type (with or     *)
(* without an enum list and examples) and has any keybind type definition  *)
(* when the option is a keybind.                                           *)
(***************************************************************************)

MaxPartialLen == 3

ValueLists == {<<>>, <<<<"a", "d">>, <<"D", "e", "a">>, <<"e", "d">>>>}

ValueOptions ==
  [type : ConfigValueType, description : {""}]
  \cup [type : {"enum"}, description : {""}, enum : ValueLists]
  \cup [type : {"string"}, description : {""}, examples : ValueLists]

ValueTypeDefinitions ==
  {<<>>}
  \cup {[t \in {"keybind"} |-> [description |-> ""]]}
  \cup {[t \in {"keybind"} |-> [description |-> "", actions |-> a]] : a \in ValueLists}

ValueSchema(p, o, d) ==
  [version |-> "1", description |-> "", plainObject |-> p,
   options |-> <<[key |-> DeclaredKey, option |-> o]>>,
   types |-> d, repeatableKeys |-> <<>>]

ValueSchemas ==
  {ValueSchema(p, o, <<>>) : p \in BOOLEAN, o \in ValueOptions}
  \cup {ValueSchema(p, [type |-> "keybind", description |-> ""], d) :
          p \in BOOLEAN, d \in ValueTypeDefinitions}

PartialAlphabet == {" ", "=", ":", "a", "d", "e", "D"}

ValueTexts ==
  {key \o suffix :
     key \in {DeclaredKey, UndeclaredKey, InheritedKey},
     suffix \in {<<>>} \cup {<<"=">> \o typed :
                               typed \in StringsUpTo(PartialAlphabet, MaxPartialLen)}}

ValueCompletionInit ==
  /\ schema \in ValueSchemas
  /\ call = NoCall
  /\ result = Undefined

GetValueCompletions ==
  /\ call = NoCall
  /\ \E textBeforeCursor \in ValueTexts :
       LET key == Trim(Substring(textBeforeCursor, 0,
                                 IF IndexOf(textBeforeCursor, "=") = -1
                                   THEN Len(textBeforeCursor)
                                   ELSE IndexOf(textBeforeCursor, "=")))
       IN  /\ call' = [fn |-> "getValueCompletions", key |-> key,
                       textBeforeCursor |-> textBeforeCursor]
           /\ result' = getValueCompletions(schema, key, textBeforeCursor)
           /\ UNCHANGED schema

ValueCompletionNext == GetValueCompletions

ValueCompletionSpec == ValueCompletionInit /\ [][ValueCompletionNext]_vars

(***************************************************************************)
(* Properties of the parser and the position resolver (ParserSpec).        *)
(***************************************************************************)

\* The offsets after the first '=' of the line at which a character other
\* than white space stands.
NonSpaceAfterEquals(line) ==
  {i \in 0..(Len(line) - 1) :
     /\ \E e \in 0..(i - 1) : line[e + 1] = "="
     /\ line[i + 1] \notin WhiteSpace}

\* C2 as stated: for every keyValue line, empty values included, the
\* character at valueRange.start is the first character other than white
\* space after the first '=' of the line.
C2_ValueStartAlwaysAtFirstNonSpace ==
  (call.fn = "parseLine" /\ result.type = "keyValue") =>
    /\ NonSpaceAfterEquals(call.line) # {}
    /\ result.valueRange.start = Min(NonSpaceAfterEquals(call.line))

\* C2 amended: for every keyValue line whose value is not empty, the
\* character at valueRange.start is the first character other than white
\* space after the first '=' of the line; when the value is empty, no such
\* character exists and valueRange.start is the length of the line.
C2_ValueStartAtFirstNonSpace ==
  (call.fn = "parseLine" /\ result.type = "keyValue") =>
    IF result.value # <<>>
      THEN /\ NonSpaceAfterEquals(call.line) # {}
           /\ result.valueRange.start = Min(NonSpaceAfterEquals(call.line))
      ELSE /\ NonSpaceAfterEquals(call.line) = {}
           /\ result.valueRange.start = Len(call.line)

\* A keyValue line whose value is not empty and stands after white space.
C2_Witness ==
  /\ call.fn = "parseLine"
  /\ result.type = "keyValue"
  /\ result.value # <<>>
  /\ result.valueRange.start > IndexOf(call.line, "=") + 1

\* The offsets of the line at which an '=' stands.
EqualsOffsets(line) == {i \in 0..(Len(line) - 1) : line[i + 1] = "="}

\* The cursor is in key position by the rule of the specification.
KeyTerritory(line, character) ==
  EqualsOffsets(line) = {} \/ \A i \in EqualsOffsets(line) : character <= i

\* C10: for every line and cursor offset exactly one of isInKeyPosition and
\* isInValuePosition is true; key position iff the line has no '=' or the
\* offset is at most the index of the first '=', value position iff an '='
\* exists and the offset is greater than that index.
C10_PositionsPartition ==
  /\ call.fn = "isInKeyPosition" =>
        /\ result = KeyTerritory(call.line, call.character)
        /\ result = ~isInValuePosition(call.line, call.character)
  /\ call.fn = "isInValuePosition" =>
        /\ result = ~KeyTerritory(call.line, call.character)
        /\ result = ~isInKeyPosition(call.line, call.character)

\* The cursor stands on the first '=' of a line that is no keyValue line.
C10_Witness ==
  /\ call.fn = "isInKeyPosition"
  /\ IndexOf(call.line, "=") = call.character
  /\ parseLine(call.line, 0).type = "invalid"
  /\ result = TRUE

\* The characters of the line at the offsets of the half-open range.
RangeText(line, range) ==
  LET offsets == {i \in 0..(Len(line) - 1) : range.start <= i /\ i < range.end}
  IN  IF offsets = {} THEN <<>> ELSE SubSeq(line, Min(offsets) + 1, Max(offsets) + 1)

\* The text without the white space at its ends.
Stripped(text) ==
  LET inked == {i \in 1..Len(text) : text[i] \notin WhiteSpace}
  IN  IF inked = {} THEN <<>> ELSE SubSeq(text, Min(inked), Max(inked))

\* C11: for every keyValue line, the text of the line over keyRange,
\* trimmed, is the parsed key, and the text over valueRange, trimmed, is the
\* parsed value.
C11_RangesReproduceKeyAndValue ==
  (call.fn = "parseLine" /\ result.type = "keyValue") =>
    /\ Stripped(RangeText(call.line, result.keyRange)) = result.key
    /\ Stripped(RangeText(call.line, result.valueRange)) = result.value

\* An indented line with white space around a value that is not empty.
C11_Witness ==
  /\ call.fn = "parseLine"
  /\ result.type = "keyValue"
  /\ result.keyRange.start > 0
  /\ result.value # <<>>
  /\ result.valueRange.end < Len(call.line)

\* C12: in a keyValue line only the first '=' is the delimiter: the key is
\* the identifier before it and the value is all the rest of the line after
\* it, without the white space around it, further '=' included.
C12_FirstEqualsDelimits ==
  (call.fn = "parseLine" /\ result.type = "keyValue") =>
    LET first == Min(EqualsOffsets(call.line)) IN
    /\ result.key = Stripped(SubSeq(call.line, 1, first))
    /\ result.value = Stripped(SubSeq(call.line, first + 2, Len(call.line)))
    /\ \A i \in 1..Len(result.key) : result.key[i] # "="

\* A keyValue line whose value has an '=' inside, as "a=a=a".
C12_Witness ==
  /\ call.fn = "parseLine"
  /\ result.type = "keyValue"
  /\ \E i \in 2..(Len(result.value) - 1) : result.value[i] = "="

\* The line is: optional indent, a key [a-zA-Z][a-zA-Z0-9_-]*, optional
\* white space, '=', and any rest.
KeyValueGrammar(line) ==
  \E i \in 0..Len(line) : \E j \in (i + 1)..Len(line) : \E k \in j..(Len(line) - 1) :
    /\ \A n \in 1..i : line[n] \in WhiteSpace
    /\ line[i + 1] \in Letter
    /\ \A n \in (i + 1)..j : line[n] \in KeyChar
    /\ \A n \in (j + 1)..k : line[n] \in WhiteSpace
    /\ line[k + 1] = "="

\* The kind of the line by the priority of the classification.
KindByPriority(line) ==
  LET inked == {i \in 1..Len(line) : line[i] \notin WhiteSpace} IN
  IF inked = {} THEN "empty"
  ELSE IF line[Min(inked)] = "#" THEN "comment"
  ELSE IF KeyValueGrammar(line) THEN "keyValue"
  ELSE "invalid"

KeyValueFields == {"key", "value", "keyRange", "valueRange"}

\* C13: parseLine gives every line one kind by the priority empty, comment,
\* keyValue (the line matches indent, key, white space, '=', rest), invalid;
\* keyValue records carry key, value, keyRange and valueRange, the other
\* records none of them.
C13_KindByPriority ==
  call.fn = "parseLine" =>
    /\ result.type = KindByPriority(call.line)
    /\ IF result.type = "keyValue"
         THEN KeyValueFields \subseteq DOMAIN result
         ELSE KeyValueFields \cap DOMAIN result = {}

\* The offsets of the text at which a line feed stands.
LineFeeds(text) == {i \in 1..Len(text) : text[i] = "\n"}

\* The k-th of the segments that the line feeds separate, k from 1.
Segment(text, k) ==
  LET before == {i \in LineFeeds(text) : Cardinality({j \in LineFeeds(text) : j <= i}) = k - 1}
      after == {i \in LineFeeds(text) : Cardinality({j \in LineFeeds(text) : j <= i}) = k}
      first == IF before = {} THEN 1 ELSE Max(before) + 1
      last == IF after = {} THEN Len(text) ELSE Min(after) - 1
  IN  SubSeq(text, first, last)

\* C14: for a text of N segments separated by line feeds parseDocument
\* returns N records in input order; the record at index i has lineNumber i
\* and is parseLine(segment i, i).
C14_OneRecordPerLine ==
  call.fn = "parseDocument" =>
    /\ Len(result) = Cardinality(LineFeeds(call.text)) + 1
    /\ \A k \in 1..Len(result) :
         /\ result[k].lineNumber = k - 1
         /\ result[k].raw = Segment(call.text, k)
         /\ result[k] = parseLine(Segment(call.text, k), k - 1)

\* A text of three lines: an invalid line, a keyValue line, an empty line.
C14_Witness ==
  /\ call.fn = "parseDocument"
  /\ Len(result) = 3
  /\ result[1].type = "invalid"
  /\ result[2].type = "keyValue"
  /\ result[2].lineNumber = 1
  /\ result[3].type = "empty"
  /\ result[3].lineNumber = 2

\* C19: for every keyValue line the ranges are well formed and in order:
\* 0 <= keyRange.start <= keyRange.end <= index of the first '='
\* < valueRange.start <= valueRange.end <= length of the line.
C19_RangesOrdered ==
  (call.fn = "parseLine" /\ result.type = "keyValue") =>
    /\ 0 <= result.keyRange.start
    /\ result.keyRange.start <= result.keyRange.end
    /\ result.keyRange.end <= Min(EqualsOffsets(call.line))
    /\ Min(EqualsOffsets(call.line)) < result.valueRange.start
    /\ result.valueRange.start <= result.valueRange.end
    /\ result.valueRange.end <= Len(call.line)

(***************************************************************************)
(* Properties of the validators (ValidatorSpec).                           *)
(***************************************************************************)

\* The options that schema.options declares under the key of the call.
DeclaredOptions ==
  {schema.options[i].option :
     i \in {j \in 1..Len(schema.options) : schema.options[j].key = call.key}}

\* validateValue was called on a key that schema.options declares with the
\* type, and on a value that is not empty after trimming.
Dispatched(type) ==
  /\ call.fn = "validateValue"
  /\ \E o \in DeclaredOptions : o.type = type
  /\ \E i \in 1..Len(call.value) : call.value[i] \notin WhiteSpace

\* The text of the value before its first '=' (the value has one).
TriggerOf(value) == SubSeq(value, 1, Min(EqualsOffsets(value)))

\* The text of the value after its first '=' up to the first ':' after it.
ActionOf(value) ==
  LET from == Min(EqualsOffsets(value)) + 2
      colons == {i \in from..Len(value) : value[i] = ":"}
  IN  SubSeq(value, from, IF colons = {} THEN Len(value) ELSE Min(colons) - 1)

NonBlank(text) == \E i \in 1..Len(text) : text[i] \notin WhiteSpace

\* The schema's keybind type declares a non-empty vocabulary of actions.
Vocabulary ==
  IF /\ "keybind" \in DOMAIN schema.types
     /\ "actions" \in DOMAIN schema.types["keybind"]
    THEN {schema.types["keybind"].actions[i] :
            i \in 1..Len(schema.types["keybind"].actions)}
    ELSE {}

\* The call validates a keybind with a trigger and an action name, and the
\* schema's non-empty vocabulary does not have the action name.
UnknownActionCase ==
  /\ Dispatched("keybind")
  /\ EqualsOffsets(call.value) # {}
  /\ NonBlank(TriggerOf(call.value))
  /\ NonBlank(ActionOf(call.value))
  /\ Vocabulary # {}
  /\ ActionOf(call.value) \notin Vocabulary

\* C1 as stated: a keybind with a trigger and an action name that the
\* non-empty vocabulary does not have is valid (isValid = true) with
\* severity "warning".
C1_UnknownActionIsValid ==
  UnknownActionCase =>
    /\ result.isValid = TRUE
    /\ "severity" \in DOMAIN result
    /\ result.severity = "warning"

\* C1 amended: a keybind with a trigger and an action name that the
\* non-empty vocabulary does not have gives isValid = false with severity
\* "warning" and the message "Unknown keybind action: '<action>'".
C1_UnknownActionIsWarning ==
  UnknownActionCase =>
    result = [isValid |-> FALSE,
              message |-> <<"Unknown keybind action: '", ActionOf(call.value), "'">>,
              severity |-> "warning"]

\* "ctrl+x=teleport" under a vocabulary without teleport.
C1_Witness ==
  /\ UnknownActionCase
  /\ call.value = <<"c", "t", "r", "l", "+", "x", "=",
                    "t", "e", "l", "e", "p", "o", "r", "t">>
  /\ result.isValid = FALSE

\* C4 as stated: for a path-typed key validateValue gives isValid = true
\* iff the value is not empty after trimming, and an error for an empty or
\* white space value.
C4_PathValidIffNonEmpty ==
  (call.fn = "validateValue" /\ \E o \in DeclaredOptions : o.type = "path") =>
    IF NonBlank(call.value)
      THEN result.isValid = TRUE
      ELSE /\ result.isValid = FALSE
           /\ result.severity = "error"

\* C4 amended: for a path-typed key validateValue gives isValid = true for
\* every value: validatePath accepts every value that is not empty after
\* trimming, with or without a leading '~', '/', './' or '?', and rejects
\* the others, but validateValue accepts those before it dispatches.
C4_PathAlwaysValid ==
  (call.fn = "validateValue" /\ \E o \in DeclaredOptions : o.type = "path") =>
    /\ result.isValid = TRUE
    /\ validatePath(call.value).isValid = NonBlank(call.value)

\* A path that is a plain file name.
C4_Witness ==
  /\ Dispatched("path")
  /\ call.value = <<"a", ".", "t", "x", "t">>
  /\ result.isValid = TRUE

\* C5: for every key absent from schema.options and every value,
\* validateValue gives isValid = false, severity "warning" and the message
\* "Unknown configuration key: '<key>'".
C5_UnknownKeyIsWarning ==
  (call.fn = "validateValue" /\ DeclaredOptions = {}) =>
    result = [isValid |-> FALSE,
              message |-> <<"Unknown configuration key: '", call.key, "'">>,
              severity |-> "warning"]

\* C6: for every key declared in schema.options, whatever its type, an empty
\* or white space value is valid.
C6_EmptyValueIsValid ==
  (call.fn = "validateValue" /\ DeclaredOptions # {} /\ ~NonBlank(call.value)) =>
    result.isValid = TRUE

\* A white space value of a key whose type rejects white space.
C6_Witness ==
  /\ call.fn = "validateValue"
  /\ \E o \in DeclaredOptions : o.type = "boolean"
  /\ call.value = <<" ", " ">>
  /\ result.isValid = TRUE

\* C7: a keybind is checked in this order: "clear" is valid; else a value
\* without '=' is an error; else an empty trigger is the error "trigger
\* cannot be empty"; else an empty action name is the error "action cannot
\* be empty".
C7_KeybindCheckOrder ==
  Dispatched("keybind") =>
    IF call.value = <<"c", "l", "e", "a", "r">>
      THEN result.isValid = TRUE
    ELSE IF EqualsOffsets(call.value) = {}
      THEN /\ result.isValid = FALSE
           /\ result.severity = "error"
           /\ result.message
                = <<"Invalid keybind format. Expected: [prefix:]trigger=action[:param]">>
    ELSE IF ~NonBlank(TriggerOf(call.value))
      THEN result = [isValid |-> FALSE,
                     message |-> <<"Keybind trigger cannot be empty">>,
                     severity |-> "error"]
    ELSE IF ~NonBlank(ActionOf(call.value))
      THEN result = [isValid |-> FALSE,
                     message |-> <<"Keybind action cannot be empty">>,
                     severity |-> "error"]
      ELSE "message" \in DOMAIN result =>
             result.message \notin {<<"Keybind trigger cannot be empty">>,
                                    <<"Keybind action cannot be empty">>}

\* "=": trigger and action are both empty, the trigger is reported.
C7_Witness ==
  /\ Dispatched("keybind")
  /\ call.value = <<"=">>
  /\ result.message = <<"Keybind trigger cannot be empty">>

\* C8 as stated: for an enum-typed key and a non-empty value the result is
\* valid exactly when the value is a member of option.enum, and an error
\* listing the allowed set otherwise, an absent enum list included.
C8_EnumValidIffMember ==
  Dispatched("enum") =>
    \A o \in DeclaredOptions :
      LET allowed == IF "enum" \in DOMAIN o
                       THEN {o.enum[i] : i \in 1..Len(o.enum)}
                       ELSE {}
      IN  IF call.value \in allowed
            THEN result.isValid = TRUE
            ELSE /\ result.isValid = FALSE
                 /\ result.severity = "error"

\* C8 amended: for an enum-typed key whose option has an enum list and a
\* value that is not empty after trimming, the result is valid exactly when
\* the value is an exact, case-sensitive member of the list, and otherwise an
\* error listing the allowed set; when the option has no enum list every
\* value is valid.
C8_EnumValidIffMemberOfDeclaredList ==
  Dispatched("enum") =>
    \A o \in DeclaredOptions :
      IF "enum" \notin DOMAIN o
        THEN result.isValid = TRUE
      ELSE IF call.value \in {o.enum[i] : i \in 1..Len(o.enum)}
        THEN result.isValid = TRUE
        ELSE /\ result.isValid = FALSE
             /\ result.severity = "error"
             /\ result.message
                  = <<"Invalid value: '", call.value, "'. Expected one of: ", o.enum>>

\* A value that differs from a member of the list only in letter case.
C8_Witness ==
  /\ Dispatched("enum")
  /\ call.value = <<"A">>
  /\ \E o \in DeclaredOptions : "enum" \in DOMAIN o /\ o.enum = << <<"a">> >>
  /\ result.isValid = FALSE

\* C9: every result of validateValue with isValid = false has a message and
\* a severity; the severity is "warning" for an unknown key and for an
\* unknown keybind action, and "error" for every other failure.
C9_FailureHasMessageAndSeverity ==
  (call.fn = "validateValue" /\ result.isValid = FALSE) =>
    /\ "message" \in DOMAIN result
    /\ Len(result.message) > 0
    /\ "severity" \in DOMAIN result
    /\ result.severity = IF DeclaredOptions = {} \/ UnknownActionCase
                           THEN "warning"
                           ELSE "error"

\* A failure of a type validator other than the keybind's.
C9_Witness ==
  /\ Dispatched("boolean")
  /\ call.value = <<"1">>
  /\ result.isValid = FALSE
  /\ result.severity = "error"

\* The text is a run of decimal digits with at most one '.', after an
\* optional sign, and has a digit.
DecimalText(text) ==
  LET body == IF text # <<>> /\ text[1] \in {"+", "-"}
                THEN SubSeq(text, 2, Len(text))
                ELSE text
  IN  /\ \A i \in 1..Len(body) : body[i] \in Digit \cup {"."}
      /\ Cardinality({i \in 1..Len(body) : body[i] = "."}) <= 1
      /\ \E i \in 1..Len(body) : body[i] \in Digit

\* The whole value, white space at its ends apart, is a number: a decimal
\* with an optional exponent, or an infinity.
NumberText(value) ==
  LET text == Stripped(value) IN
  \/ DecimalText(text)
  \/ \E k \in 2..(Len(text) - 1) :
       /\ text[k] \in {"e", "E"}
       /\ DecimalText(SubSeq(text, 1, k - 1))
       /\ DecimalText(SubSeq(text, k + 1, Len(text)))
       /\ \A i \in (k + 1)..Len(text) : text[i] # "."
  \/ text \in {<<"I", "n", "f", "i", "n", "i", "t", "y">>,
               <<"+", "I", "n", "f", "i", "n", "i", "t", "y">>,
               <<"-", "I", "n", "f", "i", "n", "i", "t", "y">>}

\* A number is validated: by validateNumber, or by validateValue for a key
\* of type number and a value that is not empty after trimming.
NumberValidated == call.fn = "validateNumber" \/ Dispatched("number")

\* The option the number is validated against.
NumberOption ==
  IF call.fn = "validateNumber"
    THEN call.option
    ELSE CHOOSE o \in DeclaredOptions : TRUE

\* C15: a value that cannot be parsed as a number is rejected with an
\* error; a value that parses to n is valid iff n >= minimum (when declared)
\* and n <= maximum (when declared); below the minimum the error names the
\* minimum, above the maximum it names the maximum.
C15_NumberWithinBounds ==
  NumberValidated =>
    LET n == ParseFloat(call.value)
        below == "minimum" \in DOMAIN NumberOption /\ NumberLess(n, NumberOption.minimum)
        above == "maximum" \in DOMAIN NumberOption /\ NumberGreater(n, NumberOption.maximum)
    IN  IF ~NumberText(call.value)
          THEN result.isValid = FALSE /\ result.severity = "error"
        ELSE IF below
          THEN /\ result.isValid = FALSE
               /\ result.severity = "error"
               /\ result.message[3] = " is below minimum "
               /\ result.message[4] = NumberOption.minimum
        ELSE IF above
          THEN /\ result.isValid = FALSE
               /\ result.severity = "error"
               /\ result.message[3] = " is above maximum "
               /\ result.message[4] = NumberOption.maximum
          ELSE result.isValid = TRUE

HexCharacter == Digit \cup {"a", "b", "c", "d", "e", "f"} \cup {"A", "B", "C", "D", "E", "F"}

\* The text is n hexadecimal digits.
HexDigits(text, n) == Len(text) = n /\ \A i \in 1..Len(text) : text[i] \in HexCharacter

\* A colour by the rule: 6 hexadecimal digits with or without '#', '#' and 3
\* or 8 hexadecimal digits, or a named colour in any letter case.
ColourText(value) ==
  \/ HexDigits(value, 6)
  \/ /\ Len(value) > 0
     /\ value[1] = "#"
     /\ \/ HexDigits(SubSeq(value, 2, Len(value)), 3)
        \/ HexDigits(SubSeq(value, 2, Len(value)), 6)
        \/ HexDigits(SubSeq(value, 2, Len(value)), 8)
  \/ \E name \in NAMED_COLORS :
       /\ Len(name) = Len(value)
       /\ \A i \in 1..Len(name) : ToLowerCase(<<value[i]>>) = <<name[i]>>

\* C16: validateColor accepts a value iff it is 6 hexadecimal digits with or
\* without '#', '#' and 3 or 8 hexadecimal digits, or a named colour in any
\* letter case; every other value is an error.
C16_ColourAccepted ==
  (call.fn = "validateColor" \/ Dispatched("color")) =>
    IF ColourText(call.value)
      THEN result.isValid = TRUE
      ELSE /\ result.isValid = FALSE
           /\ result.severity = "error"
           /\ result.message[2] = call.value

\* Three hexadecimal digits without '#' are rejected.
C16_Witness ==
  /\ call.fn = "validateColor"
  /\ call.value = <<"f", "0", "0">>
  /\ result.isValid = FALSE

(***************************************************************************)
(* Properties of the completion provider (CompletionSpec).                 *)
(***************************************************************************)

\* The UTF-16 code unit of a character of a key.
CodeUnit(c) ==
  IF \E k \in 1..26 : LowerCase[k] = c
    THEN 96 + (CHOOSE k \in 1..26 : LowerCase[k] = c)
  ELSE IF \E k \in 1..26 : UpperCase[k] = c
    THEN 64 + (CHOOSE k \in 1..26 : UpperCase[k] = c)
  ELSE IF \E k \in 1..10 : DecimalDigits[k] = c
    THEN 47 + (CHOOSE k \in 1..10 : DecimalDigits[k] = c)
  ELSE IF c = "_" THEN 95
  ELSE IF c = "-" THEN 45
  ELSE 32

\* a sorts before b: the lexicographic order of the strings.
SortsBefore(a, b) ==
  \E k \in 1..(Len(b)) :
    /\ \A i \in 1..(k - 1) : i <= Len(a) /\ a[i] = b[i]
    /\ k > Len(a) \/ CodeUnit(a[k]) < CodeUnit(b[k])

\* The schema declares the key of the item as deprecated.
DeprecatedKey(item) ==
  \E i \in 1..Len(schema.options) :
    /\ schema.options[i].key = item.label
    /\ "deprecated" \in DOMAIN schema.options[i].option
    /\ schema.options[i].option.deprecated = TRUE

\* C3: in the order of the sort keys every non-deprecated key comes before
\* every deprecated key, and the keys of each group are in lexicographic
\* order of their names, whatever the key names of the schema are.
C3_DeprecatedKeysLast ==
  call.fn = "getKeyCompletions" =>
    \A i, j \in 1..Len(result) :
      /\ (~DeprecatedKey(result[i]) /\ DeprecatedKey(result[j])) =>
           SortsBefore(result[i].sortText, result[j].sortText)
      /\ (DeprecatedKey(result[i]) = DeprecatedKey(result[j])) =>
           (SortsBefore(result[i].sortText, result[j].sortText)
              = SortsBefore(result[i].label, result[j].label))


(***************************************************************************)
(* Properties of value completion (ValueCompletionSpec).                   *)
(***************************************************************************)

\* Value completion was asked for a declared key whose option has this type.
ValueCompletionFor(type) ==
  /\ call.fn = "getValueCompletions"
  /\ call.key \in OwnKeys(schema.options)
  /\ OptionOf(schema, call.key).type = type

\* The partial text: what is typed after the first '=' of the text before
\* the cursor, without the surrounding whitespace, in lower case.
PartialText ==
  LET text == call.textBeforeCursor
      equals == {i \in 1..Len(text) : text[i] = "="}
  IN  IF equals = {}
        THEN <<>>
        ELSE ToLowerCase(Trim(SubSeq(text, Min(equals) + 1, Len(text))))

\* The whole text after the first '=' of the partial text.
AfterFirstEquals ==
  SubSeq(PartialText, Min({i \in 1..Len(PartialText) : PartialText[i] = "="}) + 1,
         Len(PartialText))

Offered == {result[i].label : i \in 1..Len(result)}

ActionVocabulary ==
  IF KeybindActions(schema) = Undefined
    THEN {}
    ELSE {KeybindActions(schema)[i] : i \in 1..Len(KeybindActions(schema))}

\* C17: in keybind value completion, when the partial text contains '=', the
\* candidates are exactly the actions of the schema's vocabulary that
\* contain, case-insensitively, the whole text after the first '=', and no
\* modifier-prefix token or common full keybind is offered.
C17_ActionsMatchTextAfterEquals ==
  (ValueCompletionFor("keybind") /\ Includes(PartialText, <<"=">>)) =>
    /\ Offered = {action \in ActionVocabulary :
                    Includes(ToLowerCase(action), AfterFirstEquals)}
    /\ \A i \in 1..Len(result) : result[i].kind = "Function"

ThemeNames == {themes[i] : i \in 1..Len(themes)}

\* C18 as stated: in theme value completion every candidate, the built-in
\* theme names and the light/dark combination template alike, is offered
\* iff its lower-case text contains the partial text.
C18_CandidatesByContainment ==
  ValueCompletionFor("theme") =>
    Offered = {candidate \in ThemeNames \cup {themeCombination.label} :
                 Includes(ToLowerCase(candidate), PartialText)}

\* C18, amended: in theme value completion a built-in theme name is offered
\* iff its lower-case text contains the partial text; the light/dark
\* combination template is offered iff the partial text is empty or is
\* itself contained in "light:" or in "dark:"; nothing else is offered, and
\* an empty partial text yields all the built-in names and then the template.
C18_TemplateByPrefixWords ==
  ValueCompletionFor("theme") =>
    /\ Offered \subseteq ThemeNames \cup {themeCombination.label}
    /\ \A name \in ThemeNames :
         name \in Offered <=> Includes(ToLowerCase(name), PartialText)
    /\ themeCombination.label \in Offered <=>
         \/ PartialText = <<>>
         \/ \E word \in {<<"l", "i", "g", "h", "t", ":">>, <<"d", "a", "r", "k", ":">>} :
              \E i \in 0..(Len(word) - Len(PartialText)) :
                SubSeq(word, i + 1, i + Len(PartialText)) = PartialText
    /\ PartialText = <<>> =>
         [i \in 1..Len(result) |-> result[i].label] = themes \o <<themeCombination.label>>

\* A theme completion whose partial text is not empty, where the template is
\* offered, a theme name is offered and another is not.
C18_Witness ==
  /\ ValueCompletionFor("theme")
  /\ PartialText # <<>>
  /\ themeCombination.label \in Offered
  /\ \E kept, dropped \in ThemeNames : kept \in Offered /\ dropped \notin Offered

====
